---- MODULE Spec2Model ----
(***************************************************************************)
(* Block-cached raster access layer of natcap/invest                       *)
(* (src/natcap/invest/managed_raster/ManagedRaster.h).                     *)
(*                                                                         *)
(* One ManagedRaster instance at a time works on one raster file.  The     *)
(* file (its geometry and its pixels) outlives the instance, so a raster   *)
(* that was closed can be opened again by a new instance.                  *)
(***************************************************************************)
EXTENDS Integers, Sequences, FiniteSets, TLC

(***************************************************************************)
(* Bounds of the model.                                                    *)
(***************************************************************************)
\* pixel values are the doubles 0..MaxValue
MaxValue == 1
\* number of operations (constructor, get, set, close) in one behaviour
MaxOps == 5
\* the same, in the behaviours that write, close and open the raster again
MaxOpsReopen == 6
\* the same, in the behaviours that try the constructor on every block size
MaxOpsCtor == 2
\* band ids offered to the constructor are 0..MaxBandId
MaxBandId == 2
\* block dimensions offered to the constructor check are 0..MaxBlockSize
MaxBlockSize == 9
\* cache capacities tried besides the default one are 1..MaxSmallCapacity
MaxSmallCapacity == 2
\* operations a behaviour with neighbor iterators is followed for, the
\* increments of an iterator not counted
MaxOpsFlow == 3

\* value of the global MANAGED_RASTER_N_BLOCKS as the source initialises it
DefaultNBlocks == 64

Values == 0..MaxValue
NoValue == 0 - 1

VARIABLES
    file,                    \* the dataset on disk: xsize, ysize, bx, by, bands
    disk,                    \* the band's pixels on disk: <<x, y>> -> value
    MANAGED_RASTER_N_BLOCKS, \* the global int handed to the LRUCache constructor
    io_may_fail,             \* whether RasterIO of this dataset can fail
    status,                  \* "unconstructed", "constructed", "threw", "ub"
    write_mode,              \* ManagedRaster::write_mode
    closed,                  \* ManagedRaster::closed
    lru,                     \* LRUCache item_list: <<[key, val]>>, most recent first
    dirty_blocks,            \* ManagedRaster::dirty_blocks
    allocated,               \* keys of the block buffers CPLMalloc'ed and not CPLFree'd
    live,                    \* other resources held: dataset, lru_cache, ...
    lastOp,                  \* the last completed call: op, x, y, v (the value set,
                             \* for a get the value set just before), ret, events
    tracking,                \* which history is kept: "history", "accesses"
    caller,                  \* "any", or "ascending": blocks are touched in order
    scenario,                \* history: where the behaviour is in write/close/reopen
    watch,                   \* history: the pixel whose sets are followed
    lastSet,                 \* history: last value set to it in the write session
    evictedDirty,            \* history: the write session has evicted a dirty block
    touched,                 \* history: block indexes get and set were called on
    scheme,                  \* the template argument T: "MFD", "D8", or "none"
                             \* for a plain ManagedRaster
    iter,                    \* the neighbor iterator in use, with its Pixel
    nops,                    \* number of operations so far
    op_limit                 \* number of operations the behaviour is followed for

vars == <<file, disk, MANAGED_RASTER_N_BLOCKS, io_may_fail, status, write_mode,
          closed, lru, dirty_blocks, allocated, live, lastOp, tracking, caller,
          scenario, watch, lastSet, evictedDirty, touched, scheme, iter, nops,
          op_limit>>

(***************************************************************************)
(* Integer helpers: the bit operations of C++ int.                         *)
(***************************************************************************)
RECURSIVE Pow2(_)
Pow2(n) == IF n = 0 THEN 1 ELSE 2 * Pow2(n - 1)

\* a & b on two's complement ints: -1 is all ones, and \div and % floor
RECURSIVE BitAnd(_, _)
BitAnd(a, b) ==
    IF a = 0 \/ b = 0 THEN 0
    ELSE IF a = -1 THEN b
    ELSE IF b = -1 THEN a
    ELSE (a % 2) * (b % 2) + 2 * BitAnd(a \div 2, b \div 2)

\* (int) log2(n) for n >= 1
RECURSIVE Log2(_)
Log2(n) == IF n <= 1 THEN 0 ELSE 1 + Log2(n \div 2)

\* a << b
ShiftLeft(a, b) == a * Pow2(b)

Min(a, b) == IF a < b THEN a ELSE b

(***************************************************************************)
(* Fields the constructor reads from the dataset and derives from it.      *)
(***************************************************************************)
raster_x_size == file.xsize
raster_y_size == file.ysize
block_xsize == file.bx
block_ysize == file.by
block_xmod == block_xsize - 1
block_ymod == block_ysize - 1
block_xbits == Log2(block_xsize)
block_ybits == Log2(block_ysize)
block_nx == (raster_x_size + block_xsize - 1) \div block_xsize
block_ny == (raster_y_size + block_ysize - 1) \div block_ysize

\* mutant: every block is taken to be block_xsize wide
actualBlockWidths_Full == [k \in 0..(block_nx * block_ny - 1) |-> block_xsize]

\* GDALRasterBand::GetActualBlockSize, x part, as stored per block
actualBlockWidths ==
    [k \in 0..(block_nx * block_ny - 1) |->
        Min(block_xsize, raster_x_size - (k % block_nx) * block_xsize)]

Cells == (0..(raster_x_size - 1)) \X (0..(raster_y_size - 1))

(***************************************************************************)
(* Bounded LRU map (LRUCache.h): a list of [key, val] entries, the most    *)
(* recently used first.                                                    *)
(***************************************************************************)
LRUCache_keys(list) == {list[i].key : i \in 1..Len(list)}

LRUCache_exist(list, key) == key \in LRUCache_keys(list)

LRUCache_find(list, key) == CHOOSE i \in 1..Len(list) : list[i].key = key

\* get: the entry becomes the most recent one; its value is handed out
LRUCache_get(list, key) ==
    LET i == LRUCache_find(list, key)
    IN  [list |-> <<list[i]>> \o SubSeq(list, 1, i - 1) \o SubSeq(list, i + 1, Len(list)),
         val  |-> list[i].val]

\* put: the entry is inserted as the most recent one; when the map was at
\* capacity the least recently used entry is removed and handed back
LRUCache_put(list, cache_size, key, val) ==
    LET full == Len(list) >= cache_size /\ Len(list) > 0
        kept == IF full THEN SubSeq(list, 1, Len(list) - 1) ELSE list
    IN  [list    |-> <<[key |-> key, val |-> val]>> \o kept,
         removed |-> IF full THEN <<list[Len(list)]>> ELSE <<>>]

(***************************************************************************)
(* Block windows, as _load_block and close compute them from a block index *)
(***************************************************************************)
XOff(block_index) == ShiftLeft(block_index % block_nx, block_xbits)
YOff(block_index) == ShiftLeft(block_index \div block_nx, block_ybits)

WinXSize(block_index) ==
    IF XOff(block_index) + block_xsize > raster_x_size
    THEN block_xsize - (XOff(block_index) + block_xsize - raster_x_size)
    ELSE block_xsize

WinYSize(block_index) ==
    IF YOff(block_index) + block_ysize > raster_y_size
    THEN block_ysize - (YOff(block_index) + block_ysize - raster_y_size)
    ELSE block_ysize

\* band->RasterIO(GF_Read, xoff, yoff, win_xsize, win_ysize, buffer,
\*                win_xsize, win_ysize, GDT_Float64, 0, 0): the buffer read
RasterIO_Read(d, xoff, yoff, win_xsize, win_ysize) ==
    [n \in 1..(win_xsize * win_ysize) |->
        d[<<xoff + ((n - 1) % win_xsize), yoff + ((n - 1) \div win_xsize)>>]]

\* band->RasterIO(GF_Write, xoff, yoff, win_xsize, win_ysize, buffer,
\*                win_xsize, win_ysize, GDT_Float64, 0, 0): the pixels after it
RasterIO_Write(d, xoff, yoff, win_xsize, win_ysize, buffer) ==
    [c \in DOMAIN d |->
        IF /\ c[1] >= xoff /\ c[1] < xoff + win_xsize
           /\ c[2] >= yoff /\ c[2] < yoff + win_ysize
        THEN buffer[(c[2] - yoff) * win_xsize + (c[1] - xoff) + 1]
        ELSE d[c]]

\* the write-back of one block buffer to its window
WriteBlock(d, block_index, buffer) ==
    RasterIO_Write(d, XOff(block_index), YOff(block_index),
                   WinXSize(block_index), WinYSize(block_index), buffer)

\* the read of one block's window
ReadBlock(d, block_index) ==
    RasterIO_Read(d, XOff(block_index), YOff(block_index),
                  WinXSize(block_index), WinYSize(block_index))

\* the flat block index of pixel (xi, yi), as get and set compute it
BlockIndex(xi, yi) == (yi \div block_ysize) * block_nx + (xi \div block_xsize)

\* the index of pixel (xi, yi) inside its block buffer (0-based)
Idx(xi, yi, block_index) ==
    BitAnd(yi, block_ymod) * actualBlockWidths[block_index] + BitAnd(xi, block_xmod)

Event(kind, key, ok) == [kind |-> kind, key |-> key, ok |-> ok]

(***************************************************************************)
(* _load_block.  c is the cache as the call finds it: lru, dirty, disk,    *)
(* allocated, events.  io says how the RasterIO calls of this load end:    *)
(* readOk, garbage (what a failed read leaves in the malloc'ed buffer),    *)
(* writeOk.                                                                *)
(***************************************************************************)
\* mutant: the evicted dirty block is dropped from dirty_blocks but not written
FlushRemoved_NoWrite(c, entry, io) ==
    LET isDirty == write_mode /\ entry.key \in c.dirty
    IN  [c EXCEPT
            !.dirty = IF isDirty THEN c.dirty \ {entry.key} ELSE c.dirty,
            !.allocated = c.allocated \ {entry.key},
            !.events = c.events \o <<Event("free", entry.key, TRUE)>>]

\* mutant: the evicted dirty block is written but stays in dirty_blocks
FlushRemoved_KeepDirty(c, entry, io) ==
    LET isDirty == write_mode /\ entry.key \in c.dirty
    IN  [c EXCEPT
            !.disk = IF isDirty /\ io.writeOk
                     THEN WriteBlock(c.disk, entry.key, entry.val)
                     ELSE c.disk,
            !.allocated = c.allocated \ {entry.key},
            !.events = c.events
                       \o (IF isDirty THEN <<Event("write", entry.key, io.writeOk)>>
                           ELSE <<>>)
                       \o <<Event("free", entry.key, TRUE)>>]

\* mutant: the evicted buffer is not released
FlushRemoved_NoFree(c, entry, io) ==
    LET isDirty == write_mode /\ entry.key \in c.dirty
    IN  [c EXCEPT
            !.dirty = IF isDirty THEN c.dirty \ {entry.key} ELSE c.dirty,
            !.disk = IF isDirty /\ io.writeOk
                     THEN WriteBlock(c.disk, entry.key, entry.val)
                     ELSE c.disk,
            !.events = c.events
                       \o (IF isDirty THEN <<Event("write", entry.key, io.writeOk)>>
                           ELSE <<>>)]

\* one turn of the while loop over removed_value_list
FlushRemoved(c, entry, io) ==
    LET isDirty == write_mode /\ entry.key \in c.dirty
    IN  [c EXCEPT
            !.dirty = IF isDirty THEN c.dirty \ {entry.key} ELSE c.dirty,
            !.disk = IF isDirty /\ io.writeOk
                     THEN WriteBlock(c.disk, entry.key, entry.val)
                     ELSE c.disk,
            !.allocated = c.allocated \ {entry.key},
            !.events = c.events
                       \o (IF isDirty THEN <<Event("write", entry.key, io.writeOk)>>
                           ELSE <<>>)
                       \o <<Event("free", entry.key, TRUE)>>]

RECURSIVE DrainRemoved(_, _, _)
DrainRemoved(c, removed_value_list, io) ==
    IF removed_value_list = <<>> THEN c
    ELSE DrainRemoved(FlushRemoved(c, Head(removed_value_list), io),
                      Tail(removed_value_list), io)

LoadBlock(c, block_index, io) ==
    LET pafScanline == IF io.readOk THEN ReadBlock(c.disk, block_index)
                       ELSE io.garbage
        p == LRUCache_put(c.lru, MANAGED_RASTER_N_BLOCKS, block_index, pafScanline)
        c1 == [c EXCEPT
                  !.lru = p.list,
                  !.allocated = c.allocated \cup {block_index},
                  !.events = c.events \o <<Event("malloc", block_index, TRUE),
                                           Event("read", block_index, io.readOk)>>]
    IN  DrainRemoved(c1, p.removed, io)

(***************************************************************************)
(* The rasters and the environment the model runs on.                      *)
(***************************************************************************)
Dataset(xsize, ysize, bx, by) ==
    [xsize |-> xsize, ysize |-> ysize, bx |-> bx, by |-> by, bands |-> 1]

\* a raster, the capacity of the cache, whether RasterIO can fail on it, the
\* number of operations it is followed for, the history kept and the caller
Config(dataset, n_blocks, failing, limit, track, calls) ==
    [file |-> dataset, n_blocks |-> n_blocks, failing |-> failing,
     limit |-> limit, tracking |-> track, caller |-> calls]

\* three 1x1 blocks in a row
StripDataset == Dataset(3, 1, 1, 1)
\* 3x1 pixels in a 2x1 block and a 1x1 edge block
PairDataset == Dataset(3, 1, 2, 1)
\* 3x2 pixels in a 2x2 block and a 1x2 edge block, narrower than block_xsize
EdgeDataset == Dataset(3, 2, 2, 2)
\* five 1x1 blocks in a row, for a cache of four
FiveDataset == Dataset(5, 1, 1, 1)

Configs ==
    {Config(StripDataset, n, f, MaxOps, {}, "any") :
        n \in {MaxSmallCapacity, DefaultNBlocks}, f \in BOOLEAN}
    \cup {Config(EdgeDataset, 1, FALSE, MaxOps - 1, {}, "any")}

\* the rasters that are written, closed and opened again
ReopenConfigs ==
    {Config(StripDataset, 1, FALSE, MaxOpsReopen, {"history"}, "any"),
     Config(PairDataset, 1, FALSE, MaxOpsReopen, {"history"}, "any")}

\* the rasters whose accesses are recorded: any caller on the strip, and the
\* caller that touches the five blocks once each, in order
EvictConfigs ==
    {Config(StripDataset, MaxSmallCapacity, FALSE, MaxOps, {"accesses"}, "any"),
     Config(EdgeDataset, 1, FALSE, MaxOps - 1, {"accesses"}, "any"),
     Config(FiveDataset, 4, FALSE, FiveDataset.xsize + 1,
            {"history", "accesses"}, "ascending")}

\* every block size, valid or not
CtorConfigs ==
    {Config(Dataset(3, 2, bx, by), DefaultNBlocks, FALSE, MaxOpsCtor, {}, "any") :
        bx \in 0..MaxBlockSize, by \in 0..MaxBlockSize}

\* NeighborTuple endVal
endVal == [direction |-> 8, x |-> -1, y |-> -1, num |-> -1, den |-> 1]

\* no iterator: kind is "none".  Otherwise pixel.x, pixel.y, pixel.val, the
\* dirty_blocks of pixel.raster (a copy of the raster's), the cursor i, the
\* tuple m_ptr points to, the tuples it has pointed to, whether a table was
\* indexed out of range, and whether set was called since begin()
NoIterator ==
    [kind |-> "none", x |-> -1, y |-> -1, val |-> 0, dirty |-> {}, i |-> 0,
     m_ptr |-> endVal, emitted |-> <<>>, ub |-> FALSE, stale |-> FALSE]

\* history: set has been called while the iterator is in use
Modified(it) == IF it.kind = "none" THEN it ELSE [it EXCEPT !.stale = TRUE]

InitialPixel(c) == (c[1] + c[2]) % (MaxValue + 1)

NoOp == [op |-> "none", x |-> -1, y |-> -1, v |-> NoValue, ret |-> NoValue,
         events |-> <<>>]

Cache == [lru |-> lru, dirty |-> dirty_blocks, disk |-> disk,
          allocated |-> allocated, events |-> <<>>]

InitFrom(configs) ==
    /\ \E cfg \in configs :
          /\ file = cfg.file
          /\ MANAGED_RASTER_N_BLOCKS = cfg.n_blocks
          /\ io_may_fail = cfg.failing
          /\ op_limit = cfg.limit
          /\ tracking = cfg.tracking
          /\ caller = cfg.caller
          /\ watch \in IF "history" \in cfg.tracking /\ cfg.caller = "any"
                       THEN Cells ELSE {<<0, 0>>}
    /\ disk = [c \in Cells |-> InitialPixel(c)]
    /\ status = "unconstructed"
    /\ write_mode = FALSE
    /\ closed = 0
    /\ lru = <<>>
    /\ dirty_blocks = {}
    /\ allocated = {}
    /\ live = {}
    /\ lastOp = NoOp
    /\ scenario = "void"
    /\ lastSet = NoValue
    /\ evictedDirty = FALSE
    /\ touched = <<>>
    /\ scheme = "none"
    /\ iter = NoIterator
    /\ nops = 0

Init == InitFrom(Configs)

InitReopen == InitFrom(ReopenConfigs)

InitEvict == InitFrom(EvictConfigs)

InitCtor == InitFrom(CtorConfigs)

(***************************************************************************)
(* History of the behaviour, kept where tracking asks for it.  scenario is *)
(* "writing" while a write-mode instance is open and no RasterIO call has  *)
(* failed, "written" once it is closed, "reading" while the instance that  *)
(* reopened the raster read-only has only done successful gets, and "void" *)
(* otherwise.                                                              *)
(***************************************************************************)
Failed(events) == \E i \in 1..Len(events) : ~events[i].ok

Wrote(events) == \E i \in 1..Len(events) : events[i].kind = "write"

History(sc, ls, ev) ==
    LET now == IF "history" \in tracking THEN sc ELSE "void"
    IN  /\ scenario' = now
        /\ lastSet' = IF now = "void" THEN NoValue ELSE ls
        /\ evictedDirty' = IF now = "void" THEN FALSE ELSE ev

Accesses(seq) ==
    touched' = IF "accesses" \in tracking THEN seq ELSE <<>>

Settings == <<file, MANAGED_RASTER_N_BLOCKS, io_may_fail, tracking, caller, watch,
              scheme, op_limit>>

(***************************************************************************)
(* The constructor.                                                        *)
(***************************************************************************)
\* the block size test of the constructor
NotPowerOfTwo(size) == BitAnd(size, size - 1) # 0

\* how the constructor ends: it throws for a bad band id and for the block
\* sizes the test refuses; with a block size of 0 log2 and the divisions by
\* block_xsize, block_ysize are undefined behaviour, which either stops the
\* process or yields some instance
ConstructorOutcomes(band_id) ==
    IF band_id < 1 \/ band_id > file.bands THEN {"threw"}
    ELSE IF NotPowerOfTwo(block_xsize) \/ NotPowerOfTwo(block_ysize) THEN {"threw"}
    ELSE IF block_xsize = 0 \/ block_ysize = 0 THEN {"ub", "constructed"}
    ELSE {"constructed"}

\* what is held when the constructor ends
ConstructorHolds(band_id, outcome) ==
    IF outcome = "constructed"
    THEN {"dataset", "geotransform", "actualBlockWidths", "lru_cache"}
    ELSE IF band_id < 1 \/ band_id > file.bands THEN {"dataset"}
    ELSE {"dataset", "geotransform"}

Construct(band_id, wm, outcome) ==
    /\ status \in {"unconstructed", "threw"} \/ (status = "constructed" /\ closed = 1)
    /\ nops < op_limit
    /\ outcome \in ConstructorOutcomes(band_id)
    /\ status' = outcome
    /\ write_mode' = wm
    /\ closed' = 0
    /\ lru' = <<>>
    /\ dirty_blocks' = {}
    /\ allocated' = {}
    /\ live' = ConstructorHolds(band_id, outcome)
    /\ lastOp' = [NoOp EXCEPT !.op = "construct"]
    /\ nops' = nops + 1
    /\ IF outcome # "constructed" THEN History("void", lastSet, FALSE)
       ELSE IF wm THEN History("writing", NoValue, FALSE)
       ELSE IF scenario = "written" THEN History("reading", lastSet, evictedDirty)
       ELSE History("void", lastSet, FALSE)
    /\ Accesses(<<>>)
    /\ iter' = NoIterator
    /\ UNCHANGED <<disk, Settings>>

(***************************************************************************)
(* get and set.                                                            *)
(***************************************************************************)
NoGarbage == <<>>

IOResult(readOk, garbage, writeOk) ==
    [readOk |-> readOk, garbage |-> garbage, writeOk |-> writeOk]

\* the ways the RasterIO calls of a get or set of a pixel of this block can end;
\* a failed read leaves the fresh buffer filled with any one value
IOChoices(block_index) ==
    LET loads == ~LRUCache_exist(lru, block_index)
        writes == /\ loads
                  /\ write_mode
                  /\ Len(lru) > 0
                  /\ Len(lru) >= MANAGED_RASTER_N_BLOCKS
                  /\ lru[Len(lru)].key \in dirty_blocks
        ws == IF writes /\ io_may_fail THEN BOOLEAN ELSE {TRUE}
        n == WinXSize(block_index) * WinYSize(block_index)
    IN  {IOResult(TRUE, NoGarbage, w) : w \in ws}
        \cup (IF loads /\ io_may_fail
              THEN {IOResult(FALSE, [i \in 1..n |-> g], w) : g \in Values, w \in ws}
              ELSE {})

\* an instance get and set can be called on, by a caller that goes on
Usable ==
    /\ status = "constructed" /\ closed = 0
    /\ block_xsize > 0 /\ block_ysize > 0
    /\ nops < op_limit

CallerAllows(block_index) ==
    caller = "ascending" => block_index = Len(touched)

\* if (not lru_cache->exist(block_index)) _load_block(block_index);
Resident(block_index, io) ==
    IF ~LRUCache_exist(lru, block_index) THEN LoadBlock(Cache, block_index, io)
    ELSE Cache

\* mutant: the value is not stored
StoreValue_Lost(list, idx, value) == list

\* lru_cache->get(block_index)[idx] = value, on the list get has reordered
StoreValue(list, idx, value) == [list EXCEPT ![1].val[idx + 1] = value]

\* mutant: the block is marked dirty whatever write_mode is
MarkDirty_Always(dirty, block_index) == dirty \cup {block_index}

\* if (write_mode) dirty_blocks.insert(block_index), unless it is there
MarkDirty(dirty, block_index) ==
    IF write_mode THEN dirty \cup {block_index} ELSE dirty

\* history: the value of the call before this one when that was set(xi, yi, v)
JustSet(xi, yi) ==
    IF lastOp.op = "set" /\ lastOp.x = xi /\ lastOp.y = yi THEN lastOp.v ELSE NoValue

Get(xi, yi) ==
    /\ Usable
    /\ CallerAllows(BlockIndex(xi, yi))
    /\ \E io \in IOChoices(BlockIndex(xi, yi)) :
          LET block_index == BlockIndex(xi, yi)
              c == Resident(block_index, io)
              block == LRUCache_get(c.lru, block_index)
              idx == Idx(xi, yi, block_index)
              value == block.val[idx + 1]
          IN  /\ lru' = block.list
              /\ dirty_blocks' = c.dirty
              /\ disk' = c.disk
              /\ allocated' = c.allocated
              /\ lastOp' = [op |-> "get", x |-> xi, y |-> yi, v |-> JustSet(xi, yi),
                            ret |-> value, events |-> c.events]
              /\ IF scenario \in {"writing", "reading"} /\ ~Failed(c.events)
                 THEN History(scenario, lastSet, evictedDirty \/ Wrote(c.events))
                 ELSE History("void", lastSet, FALSE)
              /\ Accesses(Append(touched, block_index))
    /\ nops' = nops + 1
    /\ UNCHANGED <<status, write_mode, closed, live, iter, Settings>>

Set(xi, yi, value) ==
    /\ Usable
    /\ CallerAllows(BlockIndex(xi, yi))
    /\ \E io \in IOChoices(BlockIndex(xi, yi)) :
          LET block_index == BlockIndex(xi, yi)
              c == Resident(block_index, io)
              block == LRUCache_get(c.lru, block_index)
              idx == Idx(xi, yi, block_index)
          IN  /\ lru' = StoreValue(block.list, idx, value)
              /\ dirty_blocks' = MarkDirty(c.dirty, block_index)
              /\ disk' = c.disk
              /\ allocated' = c.allocated
              /\ lastOp' = [op |-> "set", x |-> xi, y |-> yi, v |-> value,
                            ret |-> NoValue, events |-> c.events]
              /\ IF scenario = "writing" /\ ~Failed(c.events)
                 THEN History(scenario, IF <<xi, yi>> = watch THEN value ELSE lastSet,
                              evictedDirty \/ Wrote(c.events))
                 ELSE History("void", lastSet, FALSE)
              /\ Accesses(Append(touched, block_index))
    /\ iter' = Modified(iter)
    /\ nops' = nops + 1
    /\ UNCHANGED <<status, write_mode, closed, live, Settings>>

\* get or set on an instance whose block size is 0 divides by zero
DivideByZero ==
    /\ status = "constructed" /\ closed = 0
    /\ block_xsize = 0 \/ block_ysize = 0
    /\ nops < op_limit
    /\ status' = "ub"
    /\ lastOp' = [NoOp EXCEPT !.op = "get or set"]
    /\ nops' = nops + 1
    /\ UNCHANGED <<disk, write_mode, closed, lru, dirty_blocks, allocated, live,
                   scenario, lastSet, evictedDirty, touched, iter, Settings>>

(***************************************************************************)
(* close.                                                                  *)
(***************************************************************************)
\* one turn of the loop of the read-only path
CloseFree(c, entry) ==
    [c EXCEPT !.allocated = c.allocated \ {entry.key},
              !.events = c.events \o <<Event("free", entry.key, TRUE)>>]

\* mutant: close frees the dirty blocks without writing them
CloseFlush_NoWrite(c, entry, failing) ==
    [c EXCEPT !.dirty = c.dirty \ {entry.key},
              !.allocated = c.allocated \ {entry.key},
              !.events = c.events \o <<Event("free", entry.key, TRUE)>>]

\* one turn of the loop of the write-mode path; the writes of the blocks in
\* failing end in an error
CloseFlush(c, entry, failing) ==
    LET isDirty == entry.key \in c.dirty
    IN  [c EXCEPT
            !.dirty = IF isDirty THEN c.dirty \ {entry.key} ELSE c.dirty,
            !.disk = IF isDirty /\ entry.key \notin failing
                     THEN WriteBlock(c.disk, entry.key, entry.val)
                     ELSE c.disk,
            !.allocated = c.allocated \ {entry.key},
            !.events = c.events
                       \o (IF isDirty
                           THEN <<Event("write", entry.key, entry.key \notin failing)>>
                           ELSE <<>>)
                       \o <<Event("free", entry.key, TRUE)>>]

RECURSIVE CloseLoop(_, _, _)
CloseLoop(c, list, failing) ==
    IF list = <<>> THEN c
    ELSE CloseLoop(IF write_mode THEN CloseFlush(c, Head(list), failing)
                   ELSE CloseFree(c, Head(list)),
                   Tail(list), failing)

\* what the first close() leaves: the cache, the map and the other resources
CloseOpen(failing) ==
    LET c == CloseLoop(Cache, lru, failing)
    IN  [lru |-> IF write_mode THEN <<>> ELSE lru,
         dirty |-> c.dirty,
         disk |-> c.disk,
         allocated |-> c.allocated,
         live |-> IF write_mode
                  THEN live \ {"dataset", "lru_cache", "actualBlockWidths"}
                  ELSE live \ {"dataset"},
         events |-> c.events \o <<Event("GDALClose", -1, TRUE)>>
                    \o (IF write_mode
                        THEN <<Event("delete lru_cache", -1, TRUE),
                               Event("free actualBlockWidths", -1, TRUE)>>
                        ELSE <<>>)]

\* mutant: close() does not test closed
CloseClosed_Again == CloseOpen({})

\* what close() leaves when closed is already set: it returns at once
CloseClosed ==
    [lru |-> lru, dirty |-> dirty_blocks, disk |-> disk, allocated |-> allocated,
     live |-> live, events |-> <<>>]

FailingChoices ==
    IF io_may_fail /\ write_mode /\ closed = 0
    THEN SUBSET (dirty_blocks \cap LRUCache_keys(lru))
    ELSE {{}}

Close ==
    /\ status = "constructed" /\ nops < op_limit
    /\ \E failing \in FailingChoices :
          LET r == IF closed # 0 THEN CloseClosed ELSE CloseOpen(failing)
          IN  /\ lru' = r.lru
              /\ dirty_blocks' = r.dirty
              /\ disk' = r.disk
              /\ allocated' = r.allocated
              /\ live' = r.live
              /\ lastOp' = [NoOp EXCEPT !.op = "close", !.events = r.events]
              /\ IF closed # 0 THEN History(scenario, lastSet, evictedDirty)
                 ELSE IF scenario = "writing" /\ ~Failed(r.events)
                 THEN History("written", lastSet, evictedDirty)
                 ELSE History("void", lastSet, FALSE)
    /\ closed' = 1
    /\ nops' = nops + 1
    /\ UNCHANGED <<status, write_mode, touched, iter, Settings>>

(***************************************************************************)
(* The specifications.                                                     *)
(***************************************************************************)
Constructs ==
    \E band_id \in 0..MaxBandId, wm \in BOOLEAN,
       outcome \in {"threw", "ub", "constructed"} : Construct(band_id, wm, outcome)

Gets == \E c \in Cells : Get(c[1], c[2])

Sets == \E c \in Cells, value \in Values : Set(c[1], c[2], value)

Next == Constructs \/ Gets \/ Sets \/ Close

NextCtor == Constructs \/ Gets \/ Sets \/ Close \/ DivideByZero

\* any caller, on rasters whose RasterIO can fail or cannot
Spec == Init /\ [][Next]_vars

\* a raster is written, closed and opened again
SpecReopen == InitReopen /\ [][Next]_vars

\* the accesses are recorded
SpecEvict == InitEvict /\ [][Next]_vars

\* the constructor meets every block size
SpecCtor == InitCtor /\ [][NextCtor]_vars

(***************************************************************************)
(* What get(xi, yi) returns in the current state when its read succeeds.   *)
(***************************************************************************)
GetResult(xi, yi) ==
    LET block_index == BlockIndex(xi, yi)
        block == IF LRUCache_exist(lru, block_index)
                 THEN LRUCache_get(lru, block_index).val
                 ELSE ReadBlock(disk, block_index)
    IN  block[Idx(xi, yi, block_index) + 1]

Open == status = "constructed" /\ closed = 0

Count(events, kind) == Cardinality({i \in 1..Len(events) : events[i].kind = kind})

(***************************************************************************)
(* C1.  Eviction correctness: a write-mode raster whose RasterIO calls     *)
(* succeed is set any number of times, evictions included, and closed;     *)
(* the pixel on disk is then the last value set to it, and get on the      *)
(* raster reopened read-only returns that value.  (The pixel followed is   *)
(* any pixel: watch.)                                                      *)
(***************************************************************************)
C1_EvictionCorrectness ==
    /\ (scenario \in {"written", "reading"} /\ lastSet # NoValue)
          => disk[watch] = lastSet
    /\ (scenario = "reading" /\ lastOp.op = "get" /\ <<lastOp.x, lastOp.y>> = watch
           /\ lastSet # NoValue)
          => lastOp.ret = lastSet

C1_Witness ==
    /\ scenario = "reading" /\ lastOp.op = "get" /\ <<lastOp.x, lastOp.y>> = watch
    /\ lastSet # NoValue /\ lastSet # InitialPixel(watch)
    /\ evictedDirty
    /\ lastOp.ret = lastSet

(***************************************************************************)
(* C2.  Read-after-write identity: set(x, y, v) immediately followed by    *)
(* get(x, y) returns v, in either mode, whether or not the block was       *)
(* resident and whether or not the cache was full.                         *)
(***************************************************************************)
C2_ReadAfterWrite ==
    (lastOp.op = "get" /\ lastOp.v # NoValue) => lastOp.ret = lastOp.v

C2_Witness ==
    /\ lastOp.op = "get" /\ lastOp.v # NoValue
    /\ lastOp.v # InitialPixel(<<lastOp.x, lastOp.y>>)
    /\ lastOp.ret = lastOp.v
    /\ Len(lru) = MANAGED_RASTER_N_BLOCKS

C4_DirtyContainment ==
    (Open /\ lastOp.op \in {"get", "set"}) => dirty_blocks \subseteq LRUCache_keys(lru)

\* a dirty block has just been evicted and another one is still dirty
C4_Witness ==
    /\ Open /\ lastOp.op \in {"get", "set"}
    /\ Wrote(lastOp.events)
    /\ dirty_blocks # {}

(***************************************************************************)
(* C5.  Forced eviction flush: in write mode a load into a full cache      *)
(* evicts the block that get and set were least recently called on; when   *)
(* that block is dirty its buffer is written to its own window on disk,    *)
(* every other pixel on disk is left alone, and the block has left         *)
(* dirty_blocks when the call returns; its buffer is freed.  With a cache  *)
(* of 4, after set into block 0 and touching the blocks 1, 2, 3, 4 in      *)
(* order, block 0 has been evicted and the value set is on disk.           *)
(***************************************************************************)
LastAccess(seq, key) ==
    CHOOSE i \in 1..Len(seq) :
        seq[i] = key /\ \A j \in (i + 1)..Len(seq) : seq[j] # key

LeastRecentlyAccessed(seq, keys) ==
    CHOOSE k \in keys : \A o \in keys : LastAccess(seq, k) <= LastAccess(seq, o)

BlockCells(block_index) == {c \in Cells : BlockIndex(c[1], c[2]) = block_index}

C5_EvictionStep ==
    LET block_index == BlockIndex(lastOp'.x, lastOp'.y)
        victim == LeastRecentlyAccessed(touched, LRUCache_keys(lru))
        buffer == lru[LRUCache_find(lru, victim)].val
    IN  (/\ lastOp'.op \in {"get", "set"}
         /\ Open /\ write_mode
         /\ ~LRUCache_exist(lru, block_index)
         /\ Len(lru) = MANAGED_RASTER_N_BLOCKS)
        => /\ LRUCache_keys(lru') = (LRUCache_keys(lru) \ {victim}) \cup {block_index}
           /\ victim \notin allocated'
           /\ victim \notin dirty_blocks'
           /\ dirty_blocks' \ {block_index} = dirty_blocks \ {victim}
           /\ IF victim \in dirty_blocks
              THEN disk' = [c \in Cells |->
                               IF c \in BlockCells(victim)
                               THEN buffer[Idx(c[1], c[2], victim) + 1]
                               ELSE disk[c]]
              ELSE disk' = disk

S2_Touched ==
    /\ Open /\ write_mode
    /\ MANAGED_RASTER_N_BLOCKS = 4
    /\ touched = <<0, 1, 2, 3, 4>>
    /\ scenario = "writing" /\ lastSet # NoValue

C5_ForcedEvictionFlush ==
    /\ [][C5_EvictionStep]_vars
    /\ [](S2_Touched =>
             /\ ~LRUCache_exist(lru, 0)
             /\ disk[<<0, 0>>] = lastSet
             /\ \E i \in 1..Len(lastOp.events) :
                   lastOp.events[i] = Event("write", 0, TRUE))

C5_Witness ==
    /\ S2_Touched
    /\ lastSet # InitialPixel(<<0, 0>>)
    /\ disk[<<0, 0>>] = lastSet
    /\ ~LRUCache_exist(lru, 0)

(***************************************************************************)
(* C6.  Capacity bound: on an open raster the cache holds at most          *)
(* MANAGED_RASTER_N_BLOCKS (at most 64) block buffers, the buffers         *)
(* allocated are those of the map, and a get or set allocates and reads    *)
(* at most one buffer and frees at most one, and none without a load.      *)
(***************************************************************************)
C6_CapacityBound ==
    Open =>
       /\ Len(lru) <= MANAGED_RASTER_N_BLOCKS
       /\ Len(lru) <= DefaultNBlocks
       /\ Cardinality(LRUCache_keys(lru)) = Len(lru)
       /\ allocated = LRUCache_keys(lru)
       /\ lastOp.op \in {"get", "set"} =>
             /\ Count(lastOp.events, "malloc") <= 1
             /\ Count(lastOp.events, "read") = Count(lastOp.events, "malloc")
             /\ Count(lastOp.events, "free") <= Count(lastOp.events, "malloc")
             /\ Count(lastOp.events, "malloc") = 1
                   => LRUCache_exist(lru, BlockIndex(lastOp.x, lastOp.y))

\* a load into a full cache has freed the evicted buffer
C6_Witness ==
    /\ Open /\ lastOp.op \in {"get", "set"}
    /\ Len(lru) = MANAGED_RASTER_N_BLOCKS
    /\ Count(lastOp.events, "malloc") = 1
    /\ Count(lastOp.events, "free") = 1

(***************************************************************************)
(* C7.  Release at close: after close() on an open raster, in either       *)
(* mode, dirty_blocks is empty, the map holds no entry, and the block      *)
(* buffers, the map, actualBlockWidths and the dataset have been released. *)
(* The read-only path of close() does not do so.                           *)
(***************************************************************************)
C7_ReleaseAtClose ==
    (status = "constructed" /\ lastOp.op = "close") =>
       /\ dirty_blocks = {}
       /\ Len(lru) = 0
       /\ allocated = {}
       /\ live \cap {"dataset", "lru_cache", "actualBlockWidths"} = {}

(***************************************************************************)
(* C8.  close() is idempotent: close() leaves closed set; called with      *)
(* closed set it returns at once, with no write, no free and no GDALClose, *)
(* and leaves the disk, the map, dirty_blocks and what is allocated as     *)
(* they were; closed is never reset on an instance.                        *)
(***************************************************************************)
C8_CloseIdempotent ==
    [][/\ lastOp'.op = "close" => closed' = 1
       /\ (lastOp'.op = "close" /\ closed = 1) =>
             /\ lastOp'.events = <<>>
             /\ UNCHANGED <<disk, lru, dirty_blocks, allocated, live>>
       /\ (closed = 1 /\ closed' = 0) => lastOp'.op = "construct"]_vars

\* a second close() on a write-mode raster that was closed with dirty blocks
C8_Witness ==
    /\ status = "constructed" /\ closed = 1 /\ write_mode
    /\ lastOp.op = "close" /\ lastOp.events = <<>>
    /\ \E c \in Cells : disk[c] # InitialPixel(c)

(***************************************************************************)
(* C9.  Power-of-two check: the constructor throws for every raster whose  *)
(* block width or block height is not a positive power of two, 0           *)
(* included.  The test x & (x - 1) lets 0 through.                         *)
(***************************************************************************)
PositivePowerOfTwo(size) == \E e \in 0..size : Pow2(e) = size

C9_PowerOfTwoCheck ==
    (/\ lastOp.op = "construct"
     /\ ~(PositivePowerOfTwo(block_xsize) /\ PositivePowerOfTwo(block_ysize)))
    => status = "threw"

(***************************************************************************)
(* C10.  Read-only instances never write: on an instance constructed with  *)
(* write_mode false dirty_blocks is empty in every state, no get, set or   *)
(* close issues a block write, and the disk is left as it was.             *)
(***************************************************************************)
C10_ReadOnlyNeverWrites ==
    /\ []((status = "constructed" /\ ~write_mode) =>
             /\ dirty_blocks = {}
             /\ ~Wrote(lastOp.events))
    /\ [][(status' = "constructed" /\ ~write_mode'
           /\ lastOp'.op \in {"get", "set", "close"}) => disk' = disk]_vars

\* set on a read-only instance has evicted a block that an earlier set changed
C10_Witness ==
    /\ status = "constructed" /\ ~write_mode
    /\ lastOp.op = "set"
    /\ Count(lastOp.events, "free") = 1
    /\ \E c \in Cells :
          /\ ~LRUCache_exist(lru, BlockIndex(c[1], c[2]))
          /\ disk[c] = InitialPixel(c)

(***************************************************************************)
(* C11.  Non-fatal block write error: when the RasterIO write of a block   *)
(* fails, in an eviction or in close(), the call returns and the block     *)
(* whose write failed is still in the cache, its buffer allocated.  The    *)
(* code erases the block from dirty_blocks before the write and frees      *)
(* the buffer after it, whatever the write returned.  Stated for the       *)
(* eviction in get and set, after which the instance is still in use.      *)
(***************************************************************************)
C11_WriteErrorKeepsBlock ==
    \A i \in 1..Len(lastOp.events) :
        (/\ lastOp.op \in {"get", "set"}
         /\ lastOp.events[i].kind = "write" /\ ~lastOp.events[i].ok) =>
            /\ LRUCache_exist(lru, lastOp.events[i].key)
            /\ lastOp.events[i].key \in allocated

(***************************************************************************)
(* ManagedFlowDirRaster<T>, Pixel<T> and the neighbor iterators.           *)
(*                                                                         *)
(* Pixel values are the integers the doubles of the raster convert to; a   *)
(* proportion is the pair num / den of the float division that yields it.  *)
(***************************************************************************)
ROW_OFFSETS == <<0, -1, -1, -1, 0, 1, 1, 1>>
\* mutant: east and west are exchanged
COL_OFFSETS_Mirrored == <<0 - 1, 0 - 1, 0, 1, 1, 1, 0, 0 - 1>>

COL_OFFSETS == <<1, 1, 0, -1, -1, -1, 0, 1>>
\* mutant: every direction is its own reverse
FLOW_DIR_REVERSE_DIRECTION_Same == <<0, 1, 2, 3, 4, 5, 6, 7>>

FLOW_DIR_REVERSE_DIRECTION == <<4, 5, 6, 7, 0, 1, 2, 3>>

Directions == <<0, 1, 2, 3, 4, 5, 6, 7>>

\* a >> b on int: the sign is kept
ShiftRight(a, b) == a \div Pow2(b)

\* mutant: the shifted value is not masked
Nibble_NoMask(value, d) == ShiftRight(value, 4 * d)

\* (value >> (4 * d)) & 0xF
Nibble(value, d) == BitAnd(ShiftRight(value, 4 * d), 15)

\* mutant: the sum leaves out nibble 0
NibbleSum_NoFirst(value, idx) ==
    Nibble(value, 1) + Nibble(value, 2) + Nibble(value, 3) + Nibble(value, 4)
    + Nibble(value, 5) + Nibble(value, 6) + Nibble(value, 7)

\* mutant: the sum stops after the first nibble
NibbleSum_First(value, idx) == Nibble(value, 0)

\* the sum of the eight nibbles: flow_dir_j_sum
RECURSIVE NibbleSum(_, _)
NibbleSum(value, idx) ==
    IF idx = 8 THEN 0 ELSE Nibble(value, idx) + NibbleSum(value, idx + 1)

\* table[index] for an int[8]; outside 0..7 the read is out of range and
\* yields whatever lies there
TableRead(table, index, beyond) ==
    IF index \in 0..7 THEN table[index + 1] ELSE beyond

InBounds(xj, yj) ==
    ~(xj < 0 \/ xj >= raster_x_size \/ yj < 0 \/ yj >= raster_y_size)

NeighborTuple(direction, x, y, num, den) ==
    [direction |-> direction, x |-> x, y |-> y, num |-> num, den |-> den]

\* every RasterIO call succeeds
NoFailure == IOResult(TRUE, NoGarbage, TRUE)

\* if (not lru_cache->exist(block_index)) _load_block(block_index), on the
\* map and dirty_blocks of c
ResidentIn(c, block_index) ==
    IF ~LRUCache_exist(c.lru, block_index)
    THEN LoadBlock(c, block_index, NoFailure)
    ELSE c

\* lru_cache->get(block_index)[idx]
Fetch(c, xi, yi, block_index) ==
    LET block == LRUCache_get(c.lru, block_index)
    IN  [c |-> [c EXCEPT !.lru = block.list],
         value |-> block.val[Idx(xi, yi, block_index) + 1]]

\* get(xi, yi) on an instance whose map and dirty_blocks are those of c
GetIn(c, xi, yi) ==
    Fetch(ResidentIn(c, BlockIndex(xi, yi)), xi, yi, BlockIndex(xi, yi))

\* mutant: the nibble of the direction itself, not of the reverse direction
FlowBackMFD_Forward(flow_dir_j, d) == Nibble(flow_dir_j, d)

\* flow_ji = 0xF & (flow_dir_j >> (4 * FLOW_DIR_REVERSE_DIRECTION[d]))
FlowBackMFD(flow_dir_j, d) == Nibble(flow_dir_j, FLOW_DIR_REVERSE_DIRECTION[d + 1])

\* flow_dir_j == FLOW_DIR_REVERSE_DIRECTION[d]
FlowsBackD8(flow_dir_j, d) == flow_dir_j = FLOW_DIR_REVERSE_DIRECTION[d + 1]

\* is_local_high_point: the loop from n_dir on, and what it does with the
\* value g of an in-bounds neighbor; the answer and the cache
RECURSIVE HighPointLoop(_, _, _, _)
RECURSIVE HighPointTest(_, _, _, _)
HighPointLoop(c, xi, yi, n_dir) ==
    IF n_dir = 8 THEN [c |-> c, ret |-> TRUE]
    ELSE LET xj == xi + COL_OFFSETS[n_dir + 1]
             yj == yi + ROW_OFFSETS[n_dir + 1]
         IN  IF ~InBounds(xj, yj) THEN HighPointLoop(c, xi, yi, n_dir + 1)
             ELSE HighPointTest(GetIn(c, xj, yj), xi, yi, n_dir)

HighPointTest(g, xi, yi, n_dir) ==
    IF \/ (scheme = "MFD" /\ FlowBackMFD(g.value, n_dir) # 0)
       \/ (scheme = "D8" /\ FlowsBackD8(g.value, n_dir))
    THEN [c |-> g.c, ret |-> FALSE]
    ELSE HighPointLoop(g.c, xi, yi, n_dir + 1)

\* m_ptr = &endVal
AtEnd(it) == [it EXCEPT !.m_ptr = endVal]

\* m_ptr = new NeighborTuple(...)
Emit(it, tuple, i) ==
    [it EXCEPT !.m_ptr = tuple, !.i = i, !.emitted = Append(it.emitted, tuple)]

\* mutant: the iterator goes on for one direction more
NeighborNext_Nine(it) ==
    IF it.i >= 9 THEN AtEnd(it)
    ELSE Emit(it, NeighborTuple(it.i, it.x, it.y, 0, 1), it.i + 1)

\* mutant: the iterator ends one direction early
NeighborNext_Seven(it) ==
    IF it.i >= 7 THEN AtEnd(it)
    ELSE Emit(it, NeighborTuple(it.i, it.x + COL_OFFSETS[it.i + 1],
                                it.y + ROW_OFFSETS[it.i + 1],
                                Nibble(it.val, it.i), 1),
              it.i + 1)

\* NeighborIterator::next
NeighborNext(it) ==
    IF it.i = 8 THEN AtEnd(it)
    ELSE Emit(it, NeighborTuple(it.i, it.x + COL_OFFSETS[it.i + 1],
                                it.y + ROW_OFFSETS[it.i + 1],
                                Nibble(it.val, it.i), 1),
              it.i + 1)

\* DownslopeNeighborIterator<MFD>::next
RECURSIVE DownslopeNextMFD(_)
DownslopeNextMFD(it) ==
    IF it.i = 8 THEN AtEnd(it)
    ELSE LET xj == it.x + COL_OFFSETS[it.i + 1]
             yj == it.y + ROW_OFFSETS[it.i + 1]
             flow == Nibble(it.val, it.i)
         IN  IF InBounds(xj, yj) /\ flow # 0
             THEN Emit(it, NeighborTuple(it.i, xj, yj, flow, 1), it.i + 1)
             ELSE DownslopeNextMFD([it EXCEPT !.i = it.i + 1])

\* mutant: the neighbor is emitted without the bounds test
DownslopeNextD8_NoBounds(it, beyond) ==
    IF it.i = 8 THEN AtEnd(it)
    ELSE Emit(it, NeighborTuple(it.val,
                                it.x + TableRead(COL_OFFSETS, it.val, beyond[1]),
                                it.y + TableRead(ROW_OFFSETS, it.val, beyond[2]),
                                1, 1),
              8)

\* DownslopeNeighborIterator<D8>::next; beyond is what the reads of
\* COL_OFFSETS[val], ROW_OFFSETS[val] yield when val is not in 0..7
DownslopeNextD8(it, beyond) ==
    IF it.i = 8 THEN AtEnd(it)
    ELSE LET xj == it.x + TableRead(COL_OFFSETS, it.val, beyond[1])
             yj == it.y + TableRead(ROW_OFFSETS, it.val, beyond[2])
             read == [it EXCEPT !.ub = it.ub \/ it.val \notin 0..7]
         IN  IF ~InBounds(xj, yj) THEN AtEnd(read)
             ELSE Emit(read, NeighborTuple(it.val, xj, yj, 1, 1), 8)

\* DownslopeNeighborNoSkipIterator<MFD>::next
RECURSIVE NoSkipNextMFD(_)
NoSkipNextMFD(it) ==
    IF it.i = 8 THEN AtEnd(it)
    ELSE LET xj == it.x + COL_OFFSETS[it.i + 1]
             yj == it.y + ROW_OFFSETS[it.i + 1]
             flow == Nibble(it.val, it.i)
         IN  IF flow # 0
             THEN Emit(it, NeighborTuple(it.i, xj, yj, flow, 1), it.i + 1)
             ELSE NoSkipNextMFD([it EXCEPT !.i = it.i + 1])

\* mutant: the no-skip iterator filters by bounds as Downslope does
NoSkipNextD8_Bounded(it, beyond) == DownslopeNextD8(it, beyond)

\* DownslopeNeighborNoSkipIterator<D8>::next
NoSkipNextD8(it, beyond) ==
    IF it.i = 8 THEN AtEnd(it)
    ELSE LET xj == it.x + TableRead(COL_OFFSETS, it.val, beyond[1])
             yj == it.y + TableRead(ROW_OFFSETS, it.val, beyond[2])
             read == [it EXCEPT !.ub = it.ub \/ it.val \notin 0..7]
         IN  Emit(read, NeighborTuple(it.val, xj, yj, 1, 1), 8)

\* UpslopeNeighborIterator<MFD>::next, on the cache c of pixel.raster, and
\* what it does with the value g of the in-bounds neighbor (xj, yj)
RECURSIVE UpslopeNextMFD(_, _)
RECURSIVE UpslopeTestMFD(_, _, _, _)
UpslopeNextMFD(it, c) ==
    IF it.i = 8 THEN [it |-> AtEnd(it), c |-> c]
    ELSE LET xj == it.x + COL_OFFSETS[it.i + 1]
             yj == it.y + ROW_OFFSETS[it.i + 1]
         IN  IF ~InBounds(xj, yj) THEN UpslopeNextMFD([it EXCEPT !.i = it.i + 1], c)
             ELSE UpslopeTestMFD(it, GetIn(c, xj, yj), xj, yj)

UpslopeTestMFD(it, g, xj, yj) ==
    IF FlowBackMFD(g.value, it.i) # 0
    THEN [it |-> Emit(it, NeighborTuple(it.i, xj, yj, FlowBackMFD(g.value, it.i),
                                        NibbleSum(g.value, 0)),
                      it.i + 1),
          c |-> g.c]
    ELSE UpslopeNextMFD([it EXCEPT !.i = it.i + 1], g.c)

\* UpslopeNeighborIterator<D8>::next
RECURSIVE UpslopeNextD8(_, _)
RECURSIVE UpslopeTestD8(_, _, _, _)
UpslopeNextD8(it, c) ==
    IF it.i = 8 THEN [it |-> AtEnd(it), c |-> c]
    ELSE LET xj == it.x + COL_OFFSETS[it.i + 1]
             yj == it.y + ROW_OFFSETS[it.i + 1]
         IN  IF ~InBounds(xj, yj) THEN UpslopeNextD8([it EXCEPT !.i = it.i + 1], c)
             ELSE UpslopeTestD8(it, GetIn(c, xj, yj), xj, yj)

UpslopeTestD8(it, g, xj, yj) ==
    IF FlowsBackD8(g.value, it.i)
    THEN [it |-> Emit(it, NeighborTuple(it.i, xj, yj, 1, 1), it.i + 1), c |-> g.c]
    ELSE UpslopeNextD8([it EXCEPT !.i = it.i + 1], g.c)

\* mutant: the no-divide iterator divides as Upslope does
NoDivideTestMFD_Divided(it, g, xj, yj) == UpslopeTestMFD(it, g, xj, yj)

\* UpslopeNeighborNoDivideIterator<MFD>::next
RECURSIVE NoDivideNextMFD(_, _)
RECURSIVE NoDivideTestMFD(_, _, _, _)
NoDivideNextMFD(it, c) ==
    IF it.i = 8 THEN [it |-> AtEnd(it), c |-> c]
    ELSE LET xj == it.x + COL_OFFSETS[it.i + 1]
             yj == it.y + ROW_OFFSETS[it.i + 1]
         IN  IF ~InBounds(xj, yj) THEN NoDivideNextMFD([it EXCEPT !.i = it.i + 1], c)
             ELSE NoDivideTestMFD(it, GetIn(c, xj, yj), xj, yj)

NoDivideTestMFD(it, g, xj, yj) ==
    IF FlowBackMFD(g.value, it.i) # 0
    THEN [it |-> Emit(it, NeighborTuple(it.i, xj, yj, FlowBackMFD(g.value, it.i), 1),
                      it.i + 1),
          c |-> g.c]
    ELSE NoDivideNextMFD([it EXCEPT !.i = it.i + 1], g.c)

\* UpslopeNeighborNoDivideIterator<D8>::next
RECURSIVE NoDivideNextD8(_, _)
RECURSIVE NoDivideTestD8(_, _, _, _)
NoDivideNextD8(it, c) ==
    IF it.i = 8 THEN [it |-> AtEnd(it), c |-> c]
    ELSE LET xj == it.x + COL_OFFSETS[it.i + 1]
             yj == it.y + ROW_OFFSETS[it.i + 1]
         IN  IF ~InBounds(xj, yj) THEN NoDivideNextD8([it EXCEPT !.i = it.i + 1], c)
             ELSE NoDivideTestD8(it, GetIn(c, xj, yj), xj, yj)

NoDivideTestD8(it, g, xj, yj) ==
    IF FlowsBackD8(g.value, it.i)
    THEN [it |-> Emit(it, NeighborTuple(it.i, xj, yj, 1, 1), it.i + 1), c |-> g.c]
    ELSE NoDivideNextD8([it EXCEPT !.i = it.i + 1], g.c)

\* next() of the iterator class `kind` names, for the scheme T
IteratorNext(it, c, beyond) ==
    IF it.kind = "all" THEN [it |-> NeighborNext(it), c |-> c]
    ELSE IF it.kind = "downslope"
    THEN [it |-> IF scheme = "MFD" THEN DownslopeNextMFD(it)
                 ELSE DownslopeNextD8(it, beyond),
          c |-> c]
    ELSE IF it.kind = "noskip"
    THEN [it |-> IF scheme = "MFD" THEN NoSkipNextMFD(it)
                 ELSE NoSkipNextD8(it, beyond),
          c |-> c]
    ELSE IF it.kind = "upslope"
    THEN (IF scheme = "MFD" THEN UpslopeNextMFD(it, c) ELSE UpslopeNextD8(it, c))
    ELSE (IF scheme = "MFD" THEN NoDivideNextMFD(it, c) ELSE NoDivideNextD8(it, c))

Kinds == {"all", "downslope", "noskip", "upslope", "nodivide"}

\* what an out-of-range read of an offset table can yield
BeyondOffsets == {-1, 0, 1}

BeyondChoices(kind, val) ==
    IF scheme = "D8" /\ kind \in {"downslope", "noskip"} /\ val \notin 0..7
    THEN BeyondOffsets \X BeyondOffsets
    ELSE {<<0, 0>>}

\* the caller "centre" asks about the pixel (1, 1) only, the caller
\* "scenario" about the pixel (2, 2)
CallerQueries(xi, yi) ==
    /\ caller = "centre" => <<xi, yi>> = <<1, 1>>
    /\ caller = "scenario" => <<xi, yi>> = <<2, 2>>

\* bool is_local_high_point(xi, yi)
IsLocalHighPoint(xi, yi) ==
    /\ Usable /\ scheme # "none"
    /\ CallerQueries(xi, yi)
    /\ \E r \in {HighPointLoop(Cache, xi, yi, 0)} :
          /\ lru' = r.c.lru
          /\ dirty_blocks' = r.c.dirty
          /\ disk' = r.c.disk
          /\ allocated' = r.c.allocated
          /\ lastOp' = [op |-> "is_local_high_point", x |-> xi, y |-> yi,
                        v |-> NoValue, ret |-> IF r.ret THEN 1 ELSE 0,
                        events |-> r.c.events]
    /\ nops' = nops + 1
    /\ UNCHANGED <<status, write_mode, closed, live, scenario, lastSet, evictedDirty,
                   touched, iter, Settings>>

\* the Pixel a get has read the value of, before the first next()
PixelOf(kind, xi, yi, val) ==
    [NoIterator EXCEPT !.kind = kind, !.x = xi, !.y = yi, !.val = val]

\* Pixel<T>(raster, xi, yi), handed to the Neighbors class of `kind`, and
\* begin().  The Pixel holds a copy of the raster: the same lru_cache, its
\* own dirty_blocks.  The constructor calls get on its by-value parameter,
\* a further copy.
Begin(kind, xi, yi) ==
    /\ Usable /\ scheme # "none"
    /\ CallerQueries(xi, yi)
    /\ \E p \in {GetIn(Cache, xi, yi)} :
       \E beyond \in BeyondChoices(kind, p.value) :
       \E r \in {IteratorNext(PixelOf(kind, xi, yi, p.value),
                              [p.c EXCEPT !.dirty = dirty_blocks], beyond)} :
          /\ iter' = [r.it EXCEPT !.dirty = r.c.dirty]
          /\ lru' = r.c.lru
          /\ disk' = r.c.disk
          /\ allocated' = r.c.allocated
          /\ lastOp' = [op |-> "begin", x |-> xi, y |-> yi, v |-> NoValue,
                        ret |-> NoValue, events |-> r.c.events]
    /\ nops' = nops + 1
    /\ UNCHANGED <<status, write_mode, closed, live, dirty_blocks, scenario, lastSet,
                   evictedDirty, touched, Settings>>

\* operator++ on an iterator that is not at the end
Increment ==
    /\ status = "constructed" /\ closed = 0
    /\ iter.kind # "none" /\ iter.m_ptr # endVal
    /\ \E beyond \in BeyondChoices(iter.kind, iter.val) :
       \E r \in {IteratorNext(iter, [Cache EXCEPT !.dirty = iter.dirty], beyond)} :
          /\ iter' = [r.it EXCEPT !.dirty = r.c.dirty]
          /\ lru' = r.c.lru
          /\ disk' = r.c.disk
          /\ allocated' = r.c.allocated
          /\ lastOp' = [op |-> "increment", x |-> iter.x, y |-> iter.y,
                        v |-> NoValue, ret |-> NoValue, events |-> r.c.events]
    /\ UNCHANGED <<status, write_mode, closed, live, dirty_blocks, scenario, lastSet,
                   evictedDirty, touched, nops, Settings>>

(***************************************************************************)
(* The flow direction rasters and their specification.                     *)
(***************************************************************************)
\* the int whose nibble d is weights[d + 1]
RECURSIVE Pack(_)
Pack(weights) ==
    IF weights = <<>> THEN 0 ELSE Head(weights) + 16 * Pack(Tail(weights))

\* multi scheme: no flow, 0x1, 0x14, 0x11111111 and 0xFFFFFFFF (as int, -1)
MultiValues ==
    {0, Pack(<<1>>), Pack(<<4, 1>>), Pack(<<1, 1, 1, 1, 1, 1, 1, 1>>), 0 - 1}

\* single scheme: the directions, and two values that are none
SingleValues == (0 - 1)..8

FlowValues(T) == IF T = "MFD" THEN MultiValues ELSE SingleValues

\* a 2x2 raster in 1x1 blocks, a 3x3 raster in 2x2 blocks, and a 4x4 raster
\* in one block, where every neighbor of (2, 2) is in the raster
SquareDataset == Dataset(2, 2, 1, 1)
CentreDataset == Dataset(3, 3, 2, 2)
ScenarioDataset == Dataset(4, 4, 4, 4)

\* the values of the scenarios: 0x00010200 and 0x00000120 at the pixel
\* (2, 2), 0x00000014 and 0x00010004 at its neighbor (3, 2)
ScenarioPixels ==
    {[at |-> <<2, 2>>, value |-> Pack(<<0, 0, 2, 0, 1>>)],
     [at |-> <<2, 2>>, value |-> Pack(<<0, 2, 1>>)],
     [at |-> <<3, 2>>, value |-> Pack(<<4, 1>>)],
     [at |-> <<3, 2>>, value |-> Pack(<<4, 0, 0, 0, 1>>)]}

\* any caller on the small raster, and the caller that asks about the centre
\* of the 3x3 raster
FlowConfigs ==
    {Config(SquareDataset, DefaultNBlocks, FALSE, MaxOpsFlow - 1, {}, "any"),
     Config(CentreDataset, DefaultNBlocks, FALSE, MaxOpsFlow, {}, "centre"),
     Config(ScenarioDataset, DefaultNBlocks, FALSE, MaxOpsFlow - 1, {}, "scenario")}

\* the 2x2 raster behind a cache of one block
EvictFlowConfigs == {Config(SquareDataset, 1, FALSE, MaxOpsFlow, {}, "evicting")}

\* the rasters a behaviour starts from: all 0 for the callers "centre" and
\* "evicting", all 0 but for the pixel of a scenario for the caller "scenario" (multi scheme),
\* else all 0 but for one pixel of any value of the scheme
FlowRasters(T, calls) ==
    IF calls \in {"centre", "evicting"} \/ (calls = "scenario" /\ T = "D8")
    THEN {[c \in Cells |-> 0]}
    ELSE IF calls = "scenario"
    THEN {[c \in Cells |-> IF c = px.at THEN px.value ELSE 0] : px \in ScenarioPixels}
    ELSE {[c \in Cells |-> IF c = marked THEN value ELSE 0] :
             marked \in Cells, value \in FlowValues(T)}

InitFlowFrom(configs) ==
    /\ \E cfg \in configs :
          /\ file = cfg.file
          /\ MANAGED_RASTER_N_BLOCKS = cfg.n_blocks
          /\ io_may_fail = cfg.failing
          /\ op_limit = cfg.limit
          /\ tracking = cfg.tracking
          /\ caller = cfg.caller
    /\ watch = <<0, 0>>
    /\ scheme \in {"MFD", "D8"}
    /\ disk \in FlowRasters(scheme, caller)
    /\ status = "unconstructed"
    /\ write_mode = FALSE
    /\ closed = 0
    /\ lru = <<>>
    /\ dirty_blocks = {}
    /\ allocated = {}
    /\ live = {}
    /\ lastOp = NoOp
    /\ scenario = "void"
    /\ lastSet = NoValue
    /\ evictedDirty = FALSE
    /\ touched = <<>>
    /\ iter = NoIterator
    /\ nops = 0

InitFlow == InitFlowFrom(FlowConfigs)

HighPoints == \E c \in Cells : IsLocalHighPoint(c[1], c[2])

Begins == \E kind \in Kinds, c \in Cells : Begin(kind, c[1], c[2])

NextFlow == Constructs \/ Sets \/ HighPoints \/ Begins \/ Increment

\* flow direction rasters, their pixels and neighbor iterators
SpecFlow == InitFlow /\ [][NextFlow]_vars

\* when operator++ can be called: the guard of Increment, whose next()
\* always moves the cursor or the tuple slot
IncrementEnabled ==
    /\ status = "constructed" /\ closed = 0
    /\ iter.kind # "none" /\ iter.m_ptr # endVal

\* weak fairness of Increment, as a loop over the neighbors gives it: an
\* iterator that stays short of its end is incremented again
IncrementFair == []<>(~IncrementEnabled) \/ []<><<Increment>>_vars

SpecFlowLive == InitFlow /\ [][NextFlow]_vars /\ IncrementFair

\* the same on a cache that evicts at every load of another block
InitFlowEvict == InitFlowFrom(EvictFlowConfigs)

SpecFlowEvict == InitFlowEvict /\ [][NextFlow]_vars

(***************************************************************************)
(* What the flow direction encodings say, written without the operators    *)
(* of the iterators.                                                       *)
(***************************************************************************)
Reverse(d) == (d + 4) % 8

Weight(value, d) == (value \div (16 ^ d)) % 16

WeightSum(value) ==
    Weight(value, 0) + Weight(value, 1) + Weight(value, 2) + Weight(value, 3)
    + Weight(value, 4) + Weight(value, 5) + Weight(value, 6) + Weight(value, 7)

NeighborOf(x, y, d) == <<x + COL_OFFSETS[d + 1], y + ROW_OFFSETS[d + 1]>>

InRaster(c) == c \in Cells

\* the neighbor of (x, y) in direction d is in the raster and flows into (x, y)
FlowsInto(x, y, d) ==
    LET j == NeighborOf(x, y, d)
    IN  /\ InRaster(j)
        /\ IF scheme = "MFD" THEN Weight(GetResult(j[1], j[2]), Reverse(d)) # 0
           ELSE GetResult(j[1], j[2]) = Reverse(d)

IsPrefix(s, t) == Len(s) <= Len(t) /\ \A k \in 1..Len(s) : s[k] = t[k]

\* the iterator has emitted the first tuples of expected, points to the last
\* of them, and is at the end only when it has emitted them all
Follows(expected) ==
    /\ IsPrefix(iter.emitted, expected)
    /\ iter.m_ptr = endVal => iter.emitted = expected
    /\ iter.m_ptr # endVal =>
          iter.emitted # <<>> /\ iter.m_ptr = iter.emitted[Len(iter.emitted)]

\* the tuples of the directions of ds, in order
TuplesOf(ds, T(_)) == [k \in 1..Len(ds) |-> T(ds[k])]

(***************************************************************************)
(* C12.  Local high point: is_local_high_point(x, y) returns true iff no   *)
(* neighbor j of (x, y) that is in the raster flows into (x, y): nibble    *)
(* reverse[d] of get(j) non-zero (multi), get(j) = reverse[d] (single).    *)
(* On the 3x3 raster of zeros it is true at (1, 1), and false after        *)
(* set(0, 1, 1).                                                           *)
(***************************************************************************)
C12_LocalHighPoint ==
    lastOp.op = "is_local_high_point" =>
        (lastOp.ret = 1 <=> ~\E d \in 0..7 : FlowsInto(lastOp.x, lastOp.y, d))

\* the 3x3 multi raster of zeros after set(0, 1, 1): not a high point
C12_Witness ==
    /\ file = CentreDataset /\ scheme = "MFD"
    /\ lastOp.op = "is_local_high_point" /\ lastOp.x = 1 /\ lastOp.y = 1
    /\ lastOp.ret = 0
    /\ \A c \in Cells : GetResult(c[1], c[2]) = IF c = <<0, 1>> THEN 1 ELSE 0

(***************************************************************************)
(* C13.  Iterator totality: the 'all' iterator of any pixel, in either     *)
(* scheme, emits 8 tuples and then the end: directions 0..7 in order,      *)
(* each with (x + col_offset[d], y + row_offset[d]) and nibble d of the    *)
(* value of the pixel.                                                     *)
(***************************************************************************)
AllTuple(d) ==
    NeighborTuple(d, NeighborOf(iter.x, iter.y, d)[1], NeighborOf(iter.x, iter.y, d)[2],
                  Weight(iter.val, d), 1)

C13_IteratorTotality ==
    iter.kind = "all" =>
        /\ Follows(TuplesOf(Directions, AllTuple))
        /\ ~iter.stale => iter.val = GetResult(iter.x, iter.y)

\* all eight emitted for a pixel some of whose neighbors are outside the raster
C13_Witness ==
    /\ iter.kind = "all" /\ iter.m_ptr = endVal
    /\ Len(iter.emitted) = 8
    /\ iter.val = Pack(<<4, 1>>)
    /\ \E d \in 0..7 : ~InRaster(NeighborOf(iter.x, iter.y, d))

(***************************************************************************)
(* C14.  Downslope (multi): the Downslope iterator emits, in ascending     *)
(* order, the directions d whose neighbor is in the raster and whose       *)
(* nibble d of the value captured in the pixel is non-zero, each with      *)
(* that nibble as its proportion, and then the end.                        *)
(***************************************************************************)
DownslopeTuple(d) ==
    NeighborTuple(d, NeighborOf(iter.x, iter.y, d)[1], NeighborOf(iter.x, iter.y, d)[2],
                  Weight(iter.val, d), 1)

C14_DownslopeMulti ==
    (iter.kind = "downslope" /\ scheme = "MFD") =>
        Follows(TuplesOf(SelectSeq(Directions,
                                   LAMBDA d : /\ InRaster(NeighborOf(iter.x, iter.y, d))
                                              /\ Weight(iter.val, d) # 0),
                         DownslopeTuple))

\* some directions emitted, others with a non-zero nibble left out as their
\* neighbor is outside
C14_Witness ==
    /\ iter.kind = "downslope" /\ scheme = "MFD"
    /\ iter.m_ptr = endVal
    /\ Len(iter.emitted) >= 2
    /\ \E d \in 0..7 : /\ Weight(iter.val, d) # 0
                       /\ ~InRaster(NeighborOf(iter.x, iter.y, d))
    /\ \E k \in 1..Len(iter.emitted) : iter.emitted[k].num > 1

(***************************************************************************)
(* A whole iteration as a function of the cache: the tuples an iterator    *)
(* of the kind emits at (xi, yi) from its begin to its end.                *)
(***************************************************************************)
RECURSIVE RunToEnd(_)
RunToEnd(r) ==
    IF r.it.m_ptr = endVal THEN r.it.emitted
    ELSE RunToEnd(IteratorNext(r.it, r.c, <<0, 0>>))

EmittedBy(kind, xi, yi) ==
    RunToEnd(IteratorNext(PixelOf(kind, xi, yi, GetResult(xi, yi)), Cache, <<0, 0>>))

(***************************************************************************)
(* C15.  Duality (multi): when Downslope at pixel i emits (d, xj, yj, w)   *)
(* and the raster is not modified in between, Upslope at j = (xj, yj)      *)
(* emits a tuple with direction reverse[d], coordinates i and proportion   *)
(* w divided by the sum of the nibbles of the value of i.                  *)
(***************************************************************************)
C15_Duality ==
    (iter.kind = "downslope" /\ scheme = "MFD" /\ ~iter.stale) =>
        \A k \in 1..Len(iter.emitted) :
            \E u \in {EmittedBy("upslope", iter.emitted[k].x, iter.emitted[k].y)} :
                \E n \in 1..Len(u) :
                    /\ u[n].direction = Reverse(iter.emitted[k].direction)
                    /\ u[n].x = iter.x /\ u[n].y = iter.y
                    /\ u[n].num * WeightSum(iter.val) = iter.emitted[k].num * u[n].den

\* two downslope neighbors with unequal weights 4 and 1 of a sum of 5
C15_Witness ==
    /\ iter.kind = "downslope" /\ scheme = "MFD" /\ ~iter.stale
    /\ iter.m_ptr = endVal
    /\ Len(iter.emitted) = 2
    /\ iter.emitted[1].num = 4 /\ iter.emitted[2].num = 1
    /\ WeightSum(iter.val) = 5

(***************************************************************************)
(* C16.  Upslope: the Upslope iterator emits, in ascending order, the      *)
(* directions d whose neighbor j is in the raster and flows into the       *)
(* pixel, and then the end.  The proportion is nibble reverse[d] of        *)
(* get(j) divided by the sum of the nibbles of get(j) (multi), 1 (single). *)
(***************************************************************************)
UpslopeTuple(d) ==
    LET j == NeighborOf(iter.x, iter.y, d)
    IN  IF scheme = "MFD"
        THEN NeighborTuple(d, j[1], j[2], Weight(GetResult(j[1], j[2]), Reverse(d)),
                           WeightSum(GetResult(j[1], j[2])))
        ELSE NeighborTuple(d, j[1], j[2], 1, 1)

C16_Upslope ==
    (iter.kind = "upslope" /\ ~iter.stale) =>
        Follows(TuplesOf(SelectSeq(Directions, LAMBDA d : FlowsInto(iter.x, iter.y, d)),
                         UpslopeTuple))

\* an upslope neighbor that sends a part of its flow only
C16_Witness ==
    /\ iter.kind = "upslope" /\ scheme = "MFD" /\ ~iter.stale
    /\ iter.m_ptr = endVal
    /\ \E k \in 1..Len(iter.emitted) :
          /\ iter.emitted[k].num > 0
          /\ iter.emitted[k].num < iter.emitted[k].den

(***************************************************************************)
(* C17.  No-divide: the Upslope-no-divide iterator emits the tuples of     *)
(* the Upslope iterator (same directions, same coordinates, same order),   *)
(* with the nibble itself as the proportion (multi), 1 (single).           *)
(***************************************************************************)
NoDivideTuple(u) ==
    NeighborTuple(u.direction, u.x, u.y,
                  IF scheme = "MFD" THEN Weight(GetResult(u.x, u.y), Reverse(u.direction))
                  ELSE 1,
                  1)

C17_NoDivide ==
    (iter.kind = "nodivide" /\ ~iter.stale) =>
        \E up \in {EmittedBy("upslope", iter.x, iter.y)} :
            Follows([k \in 1..Len(up) |-> NoDivideTuple(up[k])])

\* a tuple whose proportion is the nibble 4, where Upslope gives 4/5
C17_Witness ==
    /\ iter.kind = "nodivide" /\ scheme = "MFD" /\ ~iter.stale
    /\ iter.m_ptr = endVal
    /\ \E k \in 1..Len(iter.emitted) :
          /\ iter.emitted[k].num = 4 /\ iter.emitted[k].den = 1
          /\ WeightSum(GetResult(iter.emitted[k].x, iter.emitted[k].y)) = 5

(***************************************************************************)
(* C18.  Downslope-no-skip applies no bounds filtering: under the multi    *)
(* scheme it emits, in ascending order, every direction d whose nibble of  *)
(* the center value is non-zero, also when the neighbor is outside the     *)
(* raster; under the single scheme with a center value in 0..7 it emits    *)
(* exactly one tuple, for the direction of the center value, also when     *)
(* that neighbor is outside the raster.                                    *)
(***************************************************************************)
NoSkipTuple(d) ==
    NeighborTuple(d, NeighborOf(iter.x, iter.y, d)[1], NeighborOf(iter.x, iter.y, d)[2],
                  IF scheme = "MFD" THEN Weight(iter.val, d) ELSE 1, 1)

C18_NoSkip ==
    /\ (iter.kind = "noskip" /\ scheme = "MFD") =>
          Follows(TuplesOf(SelectSeq(Directions, LAMBDA d : Weight(iter.val, d) # 0),
                           NoSkipTuple))
    /\ (iter.kind = "noskip" /\ scheme = "D8" /\ iter.val \in 0..7) =>
          Follows(<<NoSkipTuple(iter.val)>>)

\* the one neighbor of a single-scheme pixel, emitted though outside the raster
C18_Witness ==
    /\ iter.kind = "noskip" /\ scheme = "D8" /\ iter.val \in 0..7
    /\ iter.m_ptr = endVal
    /\ Len(iter.emitted) = 1
    /\ ~InRaster(<<iter.emitted[1].x, iter.emitted[1].y>>)

(***************************************************************************)
(* C19.  Downslope (single): for a center value c in 0..7 the Downslope    *)
(* iterator emits at most one tuple: exactly                               *)
(* (c, x + col_offset[c], y + row_offset[c], 1) and then the end when      *)
(* that neighbor is in the raster, and no tuple (begin equals end) when    *)
(* it is outside, as for pixel (0, 0) with value 4.                        *)
(***************************************************************************)
C19_DownslopeSingle ==
    (iter.kind = "downslope" /\ scheme = "D8" /\ iter.val \in 0..7) =>
        IF InRaster(NeighborOf(iter.x, iter.y, iter.val))
        THEN Follows(<<NeighborTuple(iter.val, NeighborOf(iter.x, iter.y, iter.val)[1],
                                     NeighborOf(iter.x, iter.y, iter.val)[2], 1, 1)>>)
        ELSE iter.emitted = <<>> /\ iter.m_ptr = endVal

\* pixel (0, 0) with value 4: begin is the end
C19_Witness ==
    /\ iter.kind = "downslope" /\ scheme = "D8"
    /\ iter.x = 0 /\ iter.y = 0 /\ iter.val = 4
    /\ lastOp.op = "begin"
    /\ iter.emitted = <<>> /\ iter.m_ptr = endVal

(***************************************************************************)
(* C20.  Single-scheme pixels whose value is outside 0..7 (8, a negative   *)
(* value, a no-data value) are treated as 'no outflow': Downslope and      *)
(* Downslope-no-skip emit no tuple for such a pixel and end, and do not    *)
(* index the direction offset tables out of range.                         *)
(***************************************************************************)
C20_NoOutflowOutsideRange ==
    (scheme = "D8" /\ iter.kind \in {"downslope", "noskip"} /\ iter.val \notin 0..7) =>
        /\ iter.emitted = <<>>
        /\ iter.m_ptr = endVal
        /\ ~iter.ub

(***************************************************************************)
(* The scenarios.                                                          *)
(***************************************************************************)
\* a Downslope iterator of the multi scheme at (2, 2), whose neighbors are
\* all in the raster, on a pixel of the value
DownslopeScenario(value) ==
    /\ iter.kind = "downslope" /\ scheme = "MFD"
    /\ iter.x = 2 /\ iter.y = 2
    /\ iter.val = value
    /\ \A d \in 0..7 : InRaster(NeighborOf(2, 2, d))

(***************************************************************************)
(* C21.  Scenario S4 as stated: for a multi-scheme pixel at (2, 2) with    *)
(* value 0x00010200 (all neighbors in the raster), Downslope emits exactly *)
(* two tuples, (d=1, x=3, y=1, proportion 2) then (d=2, x=2, y=1,          *)
(* proportion 1), in that order, then the end.                             *)
(***************************************************************************)
C21_Original ==
    DownslopeScenario(16 ^ 4 + 2 * 16 ^ 2) =>
        Follows(<<NeighborTuple(1, 3, 1, 2, 1), NeighborTuple(2, 2, 1, 1, 1)>>)

(***************************************************************************)
(* C21, amended.  The value 0x00010200 has nibble 2 = 2 and nibble 4 = 1:  *)
(* Downslope at (2, 2) emits (d=2, x=2, y=1, 2) then (d=4, x=1, y=2, 1),   *)
(* then the end.  The two tuples of the scenario, (d=1, x=3, y=1, 2) then  *)
(* (d=2, x=2, y=1, 1), are those of the value 0x00000120 (nibble 1 = 2,    *)
(* nibble 2 = 1).                                                          *)
(***************************************************************************)
C21_DownslopeScenario ==
    /\ DownslopeScenario(16 ^ 4 + 2 * 16 ^ 2) =>
          Follows(<<NeighborTuple(2, 2, 1, 2, 1), NeighborTuple(4, 1, 2, 1, 1)>>)
    /\ DownslopeScenario(16 ^ 2 + 2 * 16) =>
          Follows(<<NeighborTuple(1, 3, 1, 2, 1), NeighborTuple(2, 2, 1, 1, 1)>>)

\* the iteration over the pixel of value 0x00010200 has ended after two tuples
C21_Witness ==
    /\ DownslopeScenario(16 ^ 4 + 2 * 16 ^ 2)
    /\ iter.m_ptr = endVal
    /\ Len(iter.emitted) = 2

\* an iterator of the kind, multi scheme, on a raster not modified since its
\* begin, at a pixel whose neighbor in direction 0 is in the raster and holds
\* the value
EastNeighborHolds(kind, value) ==
    /\ iter.kind = kind /\ scheme = "MFD" /\ ~iter.stale
    /\ InRaster(<<iter.x + 1, iter.y>>)
    /\ GetResult(iter.x + 1, iter.y) = value

(***************************************************************************)
(* C22.  Scenario S6 as stated: under the multi scheme, when the neighbor  *)
(* j at direction d=0 from the center i holds v_j = 0x00000014, Upslope at *)
(* i emits a tuple with d=0 and proportion 1/5, and Upslope-no-divide at i *)
(* emits a tuple with d=0 and proportion 1.                                *)
(***************************************************************************)
C22_Original ==
    /\ EastNeighborHolds("upslope", 16 + 4) =>
          \E k \in 1..Len(iter.emitted) :
              /\ iter.emitted[k].direction = 0
              /\ 5 * iter.emitted[k].num = iter.emitted[k].den
    /\ EastNeighborHolds("nodivide", 16 + 4) =>
          \E k \in 1..Len(iter.emitted) :
              /\ iter.emitted[k].direction = 0
              /\ iter.emitted[k].num = iter.emitted[k].den

(***************************************************************************)
(* C22, amended.  The neighbor at direction 0 flows into i through its     *)
(* nibble 4.  When it holds 0x00010004 (nibble 4 = 1, nibble 0 = 4), the   *)
(* first tuple of Upslope at i is d=0 with proportion 1/5 and the first    *)
(* tuple of Upslope-no-divide is d=0 with proportion 1.  When it holds     *)
(* 0x00000014 (nibble 0 = 4, nibble 1 = 1) its nibble 4 is 0 and neither   *)
(* iterator emits a tuple with d=0.                                        *)
(***************************************************************************)
C22_UpslopeScenario ==
    /\ EastNeighborHolds("upslope", 16 ^ 4 + 4) =>
          /\ iter.emitted # <<>>
          /\ iter.emitted[1] = NeighborTuple(0, iter.x + 1, iter.y, 1, 5)
    /\ EastNeighborHolds("nodivide", 16 ^ 4 + 4) =>
          /\ iter.emitted # <<>>
          /\ iter.emitted[1] = NeighborTuple(0, iter.x + 1, iter.y, 1, 1)
    /\ (EastNeighborHolds("upslope", 16 + 4) \/ EastNeighborHolds("nodivide", 16 + 4)) =>
          \A k \in 1..Len(iter.emitted) : iter.emitted[k].direction # 0

\* Upslope at (2, 2) has ended after the one tuple of the neighbor (3, 2)
C22_Witness ==
    /\ EastNeighborHolds("upslope", 16 ^ 4 + 4)
    /\ iter.x = 2 /\ iter.y = 2
    /\ iter.m_ptr = endVal
    /\ Len(iter.emitted) = 1

(***************************************************************************)
(* C23.  Reads made through a pixel descriptor or a neighbor iterator use  *)
(* the same cache and the same dirty set as the write-mode raster they     *)
(* were created from: when a block load of the Pixel construction or of    *)
(* an iterator step evicts a block that set has made dirty, before or      *)
(* after the descriptor was created, the block is written back before its  *)
(* buffer is released.  No pixel of the raster changes its value by such   *)
(* a read, and dirty stays a subset of the resident keys of the raster.    *)
(***************************************************************************)
C23_DescriptorSharesDirtySet ==
    /\ []((Open /\ write_mode /\ lastOp.op \in {"begin", "increment"}) =>
             dirty_blocks \subseteq LRUCache_keys(lru))
    /\ [][(write_mode /\ lastOp'.op \in {"begin", "increment"}) =>
             \A c \in Cells : GetResult(c[1], c[2])' = GetResult(c[1], c[2])]_vars

(***************************************************************************)
(* C24.  The intra-block index stays inside the buffer: for every pixel    *)
(* (x, y) of the raster, also in right-edge and bottom-edge blocks that    *)
(* are narrower or shorter than the block size, the index                  *)
(* (y & (By-1)) * actual_width + (x & (Bx-1)) of get and set is in         *)
(* 0 .. win_x * win_y - 1 of the buffer _load_block allocated for the      *)
(* block, distinct pixels of a block have distinct indices, and the        *)
(* window a block is flushed to is the window it was loaded from: the      *)
(* index is the row-major place of the pixel in that window, and writing   *)
(* back what was read leaves the raster as it is.                          *)
(***************************************************************************)
BlockSizesValid == status = "constructed" /\ block_xsize > 0 /\ block_ysize > 0

C24_IndexInsideBuffer ==
    BlockSizesValid =>
        /\ \A c \in Cells :
              \E k \in {BlockIndex(c[1], c[2])} :
                  /\ Idx(c[1], c[2], k) >= 0
                  /\ Idx(c[1], c[2], k) < WinXSize(k) * WinYSize(k)
                  /\ Idx(c[1], c[2], k) + 1 \in DOMAIN ReadBlock(disk, k)
                  /\ Idx(c[1], c[2], k)
                        = (c[2] - YOff(k)) * WinXSize(k) + (c[1] - XOff(k))
                  /\ WriteBlock(disk, k, ReadBlock(disk, k)) = disk
        /\ \A c1 \in Cells, c2 \in Cells :
              (c1 # c2 /\ BlockIndex(c1[1], c1[2]) = BlockIndex(c2[1], c2[2])) =>
                  Idx(c1[1], c1[2], BlockIndex(c1[1], c1[2]))
                      # Idx(c2[1], c2[2], BlockIndex(c2[1], c2[2]))
        /\ (closed = 0 /\ lastOp.op \in {"get", "set"}) =>
              \E k \in {BlockIndex(lastOp.x, lastOp.y)} :
                  /\ LRUCache_exist(lru, k)
                  /\ Idx(lastOp.x, lastOp.y, k) + 1
                        \in DOMAIN LRUCache_get(lru, k).val

\* set has written the last place of the buffer of a block that is both
\* narrower and shorter than the block size
C24_Witness ==
    /\ BlockSizesValid /\ closed = 0
    /\ lastOp.op = "set"
    /\ \E k \in {BlockIndex(lastOp.x, lastOp.y)} :
          /\ WinXSize(k) < block_xsize /\ WinXSize(k) > 1
          /\ WinYSize(k) < block_ysize /\ WinYSize(k) > 1
          /\ Idx(lastOp.x, lastOp.y, k) = WinXSize(k) * WinYSize(k) - 1

(***************************************************************************)
(* C25.  Iterator termination: for each of the five variants and both      *)
(* schemes, for a pixel with a valid encoding (single: value in 0..7) and  *)
(* any raster contents, from begin() on and under repeated increments the  *)
(* direction cursor never decreases and never exceeds 8, at most 8 tuples  *)
(* are emitted, and the iterator eventually holds the end sentinel         *)
(* (8, -1, -1, -1), where it compares equal to end().                      *)
(***************************************************************************)
ValidEncoding == iter.kind # "none" /\ (scheme = "D8" => iter.val \in 0..7)

C25_IteratorTermination ==
    /\ [](ValidEncoding =>
             /\ iter.i \in 0..8
             /\ Len(iter.emitted) <= 8
             /\ \A k \in 1..Len(iter.emitted) : iter.emitted[k] # endVal)
    /\ [][(ValidEncoding /\ lastOp'.op = "increment") =>
             /\ iter'.i >= iter.i
             /\ iter'.i > iter.i \/ iter'.m_ptr = endVal]_vars
    /\ ValidEncoding ~> (iter.m_ptr = [direction |-> 8, x |-> -1, y |-> -1,
                                       num |-> -1, den |-> 1])

\* an 'all' iterator has emitted its eight tuples and holds the end sentinel
C25_Witness ==
    /\ ValidEncoding
    /\ lastOp.op = "increment"
    /\ iter.i = 8 /\ Len(iter.emitted) = 8
    /\ iter.m_ptr = endVal

====
